---- MODULE Spec2Model ----
(***************************************************************************)
(* Model of dags/ETL_theLook_Postgres.py: the Airflow DAG                  *)
(* etl_thelook_to_postgres, its five tasks, the identifier quoting helper  *)
(* and the column-driven view builder build_kpi_views, run against a       *)
(* PostgreSQL store (views depend on the tables they read; one execute()   *)
(* call is one implicit transaction).                                      *)
(***************************************************************************)
EXTENDS Integers, Sequences, FiniteSets, TLC

VARIABLES
    cols,        \* raw schema: table name -> set of column names (empty: no such table)
    views,       \* analytics schema: view name -> stored definition (partial function)
    schemas,     \* schemas existing in the analytics database
    database,    \* whether the analytics database exists
    stmts,       \* statements handed to cur.execute by the last build_kpi_views run
    result,      \* outcome of the last build_kpi_views run: return value or "raised"
    rejected,    \* view whose statement the store refused in the last run, "" if none
    before,      \* the views that existed when the last build_kpi_views run began
    inRow,       \* build_kpi_views runs in a row since the store was last touched from outside
    taskState,   \* Airflow task instance states of the current DAG run
    tries,       \* Airflow try number of each task instance in the current DAG run
    secrets,     \* whether /opt/airflow/secrets/kaggle.json exists
    kaggleJson,  \* whether /home/airflow/.kaggle/kaggle.json has been written
    files,       \* RAW_DIR: table name -> header of <table>.csv (partial function)
    name,        \* identifier handed to _identifier
    following,   \* the statement text that follows the identifier
    quoted,      \* text produced by _identifier, followed by the rest of the statement
    parsed       \* what the store's scanner read back from quoted

vars == <<cols, views, schemas, database, stmts, result, rejected, before, inRow,
          taskState, tries, secrets, kaggleJson, files, name, following, quoted, parsed>>

storeVars == <<cols, views, schemas, database>>
buildVars == <<stmts, result, rejected, before, inRow>>
dagVars   == <<taskState, tries, secrets, kaggleJson, files>>
quoteVars == <<name, following, quoted, parsed>>

----------------------------------------------------------------------------
(* The raw tables build_kpi_views inspects and the columns it tests for.    *)

Tables == {"order_items", "orders", "products"}

TestedColumns ==
    [order_items |-> {"created_at", "sale_price", "order_id", "product_id"},
     orders      |-> {"created_at"},
     products    |-> {"id", "category"}]

NoColumns == [t \in Tables |-> {}]

ViewNames == {"kpi_daily", "category_daily"}

----------------------------------------------------------------------------
(* SQL text.  An expression is a sequence of fragments; a view definition   *)
(* is its select list, its FROM items and its join condition.               *)

NoDef == [select |-> <<>>, from |-> <<>>, on |-> <<>>]

Sel(expr, alias) == [expr |-> expr, alias |-> alias]

\* Columns a fragment of SQL text reads, each as <<table alias, column>>.
ColumnRefs(frag) ==
    CASE frag = "DATE(order_items.created_at::timestamp)" -> {<<"order_items", "created_at">>}
      [] frag = "DATE(orders.created_at::timestamp)" -> {<<"orders", "created_at">>}
      [] frag = "SUM(COALESCE(order_items.sale_price::numeric, 0))" -> {<<"order_items", "sale_price">>}
      [] frag = "COUNT(DISTINCT order_items.order_id)" -> {<<"order_items", "order_id">>}
      [] frag = "DATE(oi.created_at::timestamp)" -> {<<"oi", "created_at">>}
      [] frag = "p.category" -> {<<"p", "category">>}
      [] frag = "SUM(COALESCE(oi.sale_price::numeric, 0))" -> {<<"oi", "sale_price">>}
      [] frag = "p.id = oi.product_id" -> {<<"p", "id">>, <<"oi", "product_id">>}
      [] OTHER -> {}

ExprRefs(expr) == UNION {ColumnRefs(expr[i]) : i \in DOMAIN expr}

DefRefs(def) ==
    UNION {ExprRefs(def.select[i].expr) : i \in DOMAIN def.select} \cup ExprRefs(def.on)

\* Tables a stored view depends on.
DefTables(def) == {def.from[i].table : i \in DOMAIN def.from}

----------------------------------------------------------------------------
(* The store.  A statement is DROP VIEW IF EXISTS or CREATE VIEW; a batch   *)
(* is the statements of one cur.execute call, which PostgreSQL runs as one  *)
(* implicit transaction: if a statement fails the batch leaves no trace.    *)

DropView(v) == [op |-> "DROP VIEW IF EXISTS", view |-> v, def |-> NoDef]
CreateView(v, def) == [op |-> "CREATE VIEW", view |-> v, def |-> def]

\* Every column the definition reads exists in the table its alias names.
Resolves(def, cs) ==
    \A r \in DefRefs(def) :
        \E i \in DOMAIN def.from : def.from[i].alias = r[1] /\ r[2] \in cs[def.from[i].table]

Accepts(st, vs, cs, sch) ==
    \/ st.op = "DROP VIEW IF EXISTS"
    \/ /\ st.op = "CREATE VIEW"
       /\ "analytics" \in sch
       /\ st.view \notin DOMAIN vs
       /\ Resolves(st.def, cs)

Apply(st, vs) ==
    IF st.op = "CREATE VIEW"
    THEN [v \in DOMAIN vs \cup {st.view} |-> IF v = st.view THEN st.def ELSE vs[v]]
    ELSE [v \in DOMAIN vs \ {st.view} |-> vs[v]]

RECURSIVE ExecFrom(_, _, _, _, _)
ExecFrom(batch, i, vs, cs, sch) ==
    IF i > Len(batch) THEN [ok |-> TRUE, views |-> vs]
    ELSE IF Accepts(batch[i], vs, cs, sch)
         THEN ExecFrom(batch, i + 1, Apply(batch[i], vs), cs, sch)
         ELSE [ok |-> FALSE, views |-> vs]

\* cur.execute(batch) with autocommit: all of the batch or none of it.
Execute(batch, vs, cs, sch) ==
    LET r == ExecFrom(batch, 1, vs, cs, sch)
    IN  IF r.ok THEN r ELSE [ok |-> FALSE, views |-> vs]

----------------------------------------------------------------------------
(* build_kpi_views: the SQL it composes.                                    *)

\* table_columns: the catalog's column names of raw.<table>; {} if there is none.
table_columns(cs, table) == cs[table]

\* from_sql as characters, for the substring test of line 211.
Chars(s) ==
    CASE s = "raw.order_items AS order_items" ->
            <<"r","a","w",".","o","r","d","e","r","_","i","t","e","m","s"," ","A","S"," ",
              "o","r","d","e","r","_","i","t","e","m","s">>
      [] s = "raw.orders AS orders" ->
            <<"r","a","w",".","o","r","d","e","r","s"," ","A","S"," ","o","r","d","e","r","s">>
      [] s = "order_items" -> <<"o","r","d","e","r","_","i","t","e","m","s">>
      [] OTHER -> <<>>

\* Python's `needle in hay` on strings.
Contains(needle, hay) ==
    LET n == Chars(needle)
        h == Chars(hay)
    IN  \E k \in 0..(Len(h) - Len(n)) : \A j \in 1..Len(n) : h[k + j] = n[j]

\* Lines 193-204: the date column, order_items first, then orders.
DateFromOrders(o_cols) ==
    IF "created_at" \in o_cols
    THEN [found |-> TRUE, date_expr |-> "DATE(orders.created_at::timestamp)",
          from_sql |-> "raw.orders AS orders"]
    ELSE [found |-> FALSE, date_expr |-> "", from_sql |-> ""]

ChooseDateOrdersFirst(oi_cols, o_cols) ==
    IF "created_at" \in o_cols
    THEN DateFromOrders(o_cols)
    ELSE IF "created_at" \in oi_cols
         THEN [found |-> TRUE, date_expr |-> "DATE(order_items.created_at::timestamp)",
               from_sql |-> "raw.order_items AS order_items"]
         ELSE [found |-> FALSE, date_expr |-> "", from_sql |-> ""]

ChooseDate(oi_cols, o_cols) ==
    IF "created_at" \in oi_cols
    THEN [found |-> TRUE, date_expr |-> "DATE(order_items.created_at::timestamp)",
          from_sql |-> "raw.order_items AS order_items"]
    ELSE DateFromOrders(o_cols)

RevenueAlwaysSum(oi_cols) == "SUM(COALESCE(order_items.sale_price::numeric, 0))"

\* Line 206.
revenue_expr(oi_cols) ==
    IF "sale_price" \in oi_cols
    THEN "SUM(COALESCE(order_items.sale_price::numeric, 0))"
    ELSE "COUNT(*)::numeric"

\* Line 207.
orders_expr(oi_cols) ==
    IF "order_id" \in oi_cols THEN "COUNT(DISTINCT order_items.order_id)" ELSE "COUNT(*)"

\* Line 208.
items_expr == "COUNT(*)"

\* Lines 212-224: kpi_daily over raw.order_items.
KpiItemsBatch(date_e, orders_e, items_e, revenue_e) ==
    << DropView("kpi_daily"),
       CreateView("kpi_daily",
          [select |-> << Sel(<<date_e>>, "order_date"),
                         Sel(<<orders_e>>, "orders"),
                         Sel(<<items_e>>, "items"),
                         Sel(<<revenue_e>>, "revenue"),
                         Sel(<<"CASE WHEN", orders_e, "> 0 THEN", revenue_e, "/", orders_e,
                               "ELSE NULL END">>, "aov") >>,
           from   |-> << [table |-> "order_items", alias |-> "order_items"] >>,
           on     |-> <<>>]) >>

\* Lines 226-235: kpi_daily over raw.orders.
KpiOrdersBatch(date_e) ==
    << DropView("kpi_daily"),
       CreateView("kpi_daily",
          [select |-> << Sel(<<date_e>>, "order_date"), Sel(<<"COUNT(*)">>, "orders") >>,
           from   |-> << [table |-> "orders", alias |-> "orders"] >>,
           on     |-> <<>>]) >>

\* Line 238.
CategoryCondition(oi_cols, p_cols) ==
    /\ "product_id" \in oi_cols
    /\ "id" \in p_cols
    /\ "category" \in p_cols
    /\ "sale_price" \in oi_cols

\* Lines 239-251.
CategoryBatch ==
    << DropView("category_daily"),
       CreateView("category_daily",
          [select |-> << Sel(<<"DATE(oi.created_at::timestamp)">>, "order_date"),
                         Sel(<<"p.category">>, "category"),
                         Sel(<<"COUNT(*)">>, "items"),
                         Sel(<<"SUM(COALESCE(oi.sale_price::numeric, 0))">>, "revenue") >>,
           from   |-> << [table |-> "order_items", alias |-> "oi"],
                         [table |-> "products", alias |-> "p"] >>,
           on     |-> <<"p.id = oi.product_id">>]) >>

CategoryElseNothing == <<>>

\* Line 253.
CategoryElse == << <<DropView("category_daily")>> >>

BailDropKpiOnly == << <<DropView("kpi_daily")>> >>

\* Lines 202-203.
BailBatches == << <<DropView("kpi_daily")>>, <<DropView("category_daily")>> >>

KpiCreateOnly(batch) == <<batch[2]>>

\* The text handed to cur.execute for kpi_daily (lines 212 and 226).
KpiExecute(batch) == batch

\* Lines 189-255: the execute calls of one run, in order, and the value returned
\* if none of them raises.
Plan(cs) ==
    LET oi_cols == table_columns(cs, "order_items")
        o_cols  == table_columns(cs, "orders")
        p_cols  == table_columns(cs, "products")
        d       == ChooseDate(oi_cols, o_cols)
    IN  IF ~d.found
        THEN [batches |-> BailBatches,
              ret |-> "No created_at column found; skipped KPI views."]
        ELSE [batches |->
                << KpiExecute(IF Contains("order_items", d.from_sql)
                              THEN KpiItemsBatch(d.date_expr, orders_expr(oi_cols), items_expr,
                                                 revenue_expr(oi_cols))
                              ELSE KpiOrdersBatch(d.date_expr)) >>
                \o (IF CategoryCondition(oi_cols, p_cols)
                    THEN <<CategoryBatch>>
                    ELSE CategoryElse),
              ret |-> "Views created: analytics.kpi_daily (and analytics.category_daily if columns exist)."]

\* The execute calls in order; the first one the store refuses raises and ends the
\* run.  faultAt > 0 numbers a call the store refuses for a reason of its own.
RECURSIVE RunFrom(_, _, _, _, _, _)
RunFrom(batches, i, vs, cs, sch, faultAt) ==
    IF i > Len(batches)
    THEN [views |-> vs, issued |-> batches, raised |-> FALSE, rejected |-> ""]
    ELSE LET r == Execute(batches[i], vs, cs, sch)
         IN  IF r.ok /\ i # faultAt
             THEN RunFrom(batches, i + 1, r.views, cs, sch, faultAt)
             ELSE [views |-> vs, issued |-> SubSeq(batches, 1, i), raised |-> TRUE,
                   rejected |-> batches[i][1].view]

\* One run of the task body against the store.
Build(faultAt) ==
    IF ~database
    THEN /\ stmts' = <<>>
         /\ result' = "raised"
         /\ rejected' = ""
         /\ before' = views
         /\ inRow' = inRow + 1
         /\ UNCHANGED storeVars
    ELSE LET plan == Plan(cols)
             r    == RunFrom(plan.batches, 1, views, cols, schemas, faultAt)
         IN  /\ views' = r.views
             /\ stmts' = r.issued
             /\ result' = IF r.raised THEN "raised" ELSE plan.ret
             /\ rejected' = r.rejected
             /\ before' = views
             /\ inRow' = inRow + 1
             /\ UNCHANGED <<cols, schemas, database>>

----------------------------------------------------------------------------
(* The view builder run on its own against a bootstrapped store whose raw   *)
(* tables change between runs.                                              *)

\* How many runs in a row the model follows before the store changes again.
MaxInRow == 2

NoViews == [v \in {} |-> NoDef]
NoFiles == [t \in {} |-> {}]

Tasks == <<"creds", "db_ok", "csvs", "loaded", "views">>

IdleDag ==
    /\ taskState = [i \in DOMAIN Tasks |-> "none"]
    /\ tries = [i \in DOMAIN Tasks |-> 0]
    /\ secrets = TRUE
    /\ kaggleJson = FALSE
    /\ files = NoFiles

IdleBuild ==
    /\ stmts = <<>>
    /\ result = ""
    /\ rejected = ""
    /\ before = NoViews
    /\ inRow = 0

NotScanned == [done |-> FALSE, ok |-> FALSE, name |-> <<>>, rest |-> <<>>]

IdleQuote ==
    /\ name = <<>>
    /\ following = <<>>
    /\ quoted = <<>>
    /\ parsed = NotScanned

\* The store as ensure_postgres_db_and_schemas leaves it, before any load.
Init ==
    /\ cols = NoColumns
    /\ views = NoViews
    /\ schemas = {"raw", "analytics"}
    /\ database = TRUE
    /\ IdleBuild
    /\ IdleDag
    /\ IdleQuote

\* The task body of build_kpi_views, lines 179-255.
build_kpi_views ==
    /\ inRow < MaxInRow
    /\ Build(0)
    /\ UNCHANGED <<dagVars, quoteVars>>

\* Between runs the raw tables are reloaded or altered (a column added, renamed
\* away or dropped): step by step any column sets may follow.
AlterRawTable ==
    \E t \in Tables : \E c \in TestedColumns[t] :
        /\ cols' = [cols EXCEPT ![t] = IF c \in @ THEN @ \ {c} ELSE @ \cup {c}]
        /\ inRow' = 0
        /\ UNCHANGED <<views, schemas, database, stmts, result, rejected, before, dagVars, quoteVars>>

\* A view is dropped from outside, on its own or by a cascading drop of what it reads.
ViewDropped ==
    \E v \in DOMAIN views :
        /\ views' = [w \in DOMAIN views \ {v} |-> views[w]]
        /\ inRow' = 0
        /\ UNCHANGED <<cols, schemas, database, stmts, result, rejected, before, dagVars, quoteVars>>

Next == build_kpi_views \/ AlterRawTable \/ ViewDropped

Spec == Init /\ [][Next]_vars

----------------------------------------------------------------------------
(* The store refusing a statement for a reason of its own (a lost          *)
(* connection, a lock, an object depending on the view).                    *)

build_kpi_views_refused ==
    /\ inRow < MaxInRow
    /\ \E k \in 1..Len(Plan(cols).batches) : Build(k)
    /\ UNCHANGED <<dagVars, quoteVars>>

NextFault == Next \/ build_kpi_views_refused

SpecFault == Init /\ [][NextFault]_vars

----------------------------------------------------------------------------
(* The DAG etl_thelook_to_postgres under the Airflow scheduler: the chain   *)
(* creds >> db_ok >> csvs >> loaded >> views, trigger rule all_success,     *)
(* default_args retries = 1.                                                *)

\* Line 93: default_args["retries"].
Retries == 1

\* The state a task instance takes when its try ends: success; failed at once on
\* AirflowFailException; otherwise up for retry while tries remain.
AfterTry(outcome, tryNumber) ==
    CASE outcome = "ok" -> "success"
      [] outcome = "AirflowFailException" -> "failed"
      [] OTHER -> IF tryNumber <= Retries THEN "up_for_retry" ELSE "failed"

\* Lines 257-263: a task may start once the task before it in the chain succeeded.
Runnable(i) ==
    /\ taskState[i] \in {"none", "up_for_retry"}
    /\ IF i = 1 THEN TRUE ELSE taskState[i - 1] = "success"

EndTry(i, outcome) ==
    /\ tries' = [tries EXCEPT ![i] = @ + 1]
    /\ taskState' = [taskState EXCEPT ![i] = AfterTry(outcome, tries[i] + 1)]

CredsRaisesPlainError(present) == IF present THEN "ok" ELSE "FileNotFoundError"

\* Lines 103-107: the check for the mounted token.
CredsOutcome(present) == IF present THEN "ok" ELSE "AirflowFailException"

\* Lines 97-117.
ensure_kaggle_creds ==
    /\ Runnable(1)
    /\ EndTry(1, CredsOutcome(secrets))
    /\ kaggleJson' = (kaggleJson \/ secrets)
    /\ UNCHANGED <<secrets, files, storeVars, buildVars, quoteVars>>

\* Lines 119-139.
ensure_postgres_db_and_schemas ==
    /\ Runnable(2)
    /\ database' = TRUE
    /\ schemas' = schemas \cup {"raw", "analytics"}
    /\ EndTry(2, "ok")
    /\ UNCHANGED <<cols, views, secrets, kaggleJson, files, buildVars, quoteVars>>

\* What the Kaggle dataset may unzip to: per csv file its header as read_csv_header
\* returns it (stripped, lower case, spaces as underscores), kept as the columns
\* build_kpi_views tests for (a header of other columns only is {}).
Datasets ==
    << [order_items |-> {"created_at", "sale_price", "order_id", "product_id"},
        orders      |-> {"created_at"},
        products    |-> {"id", "category"}],
       [order_items |-> {"sale_price", "product_id"},
        orders      |-> {"created_at"},
        products    |-> {"id", "category"}],
       [order_items |-> {"order_id"}, orders |-> {}],
       NoFiles >>

\* --unzip --force: files of the archive overwrite, other files in RAW_DIR stay.
Unzip(d, old) ==
    [t \in DOMAIN d \cup DOMAIN old |-> IF t \in DOMAIN d THEN d[t] ELSE old[t]]

\* Lines 141-161.
download_and_extract ==
    /\ Runnable(3)
    /\ \/ /\ kaggleJson
          /\ \E k \in DOMAIN Datasets :
                /\ files' = Unzip(Datasets[k], files)
                /\ EndTry(3, IF DOMAIN files' = {} THEN "AirflowFailException" ELSE "ok")
       \/ /\ EndTry(3, "CalledProcessError")
          /\ UNCHANGED files
    /\ UNCHANGED <<secrets, kaggleJson, storeVars, buildVars, quoteVars>>

\* sorted(glob(...)): order_items.csv < orders.csv < products.csv.
SortedTables == <<"order_items", "orders", "products">>

csv_paths(fs) == SelectSeq(SortedTables, LAMBDA t : t \in DOMAIN fs)

\* DROP TABLE IF EXISTS raw.<t>, without CASCADE: refused while a view reads the table.
DropTableAccepted(t, vs) == \A v \in DOMAIN vs : t \notin DefTables(vs[v])

\* Lines 59-63 and 66-73 for each path of lines 171-175, in order; the first
\* statement refused raises and leaves the tables done so far in place.
RECURSIVE LoadFrom(_, _, _, _, _)
LoadFrom(paths, i, fs, cs, vs) ==
    IF i > Len(paths) THEN [ok |-> TRUE, cols |-> cs]
    ELSE IF DropTableAccepted(paths[i], vs)
         THEN LoadFrom(paths, i + 1, fs, [cs EXCEPT ![paths[i]] = fs[paths[i]]], vs)
         ELSE [ok |-> FALSE, cols |-> cs]

\* Lines 163-177.
load_csvs_to_postgres ==
    /\ Runnable(4)
    /\ LET r == LoadFrom(csv_paths(files), 1, files, cols, views)
       IN  /\ cols' = r.cols
           /\ EndTry(4, IF r.ok THEN "ok" ELSE "DependentObjectsStillExist")
    /\ schemas' = schemas \cup {"raw"}
    /\ inRow' = 0
    /\ UNCHANGED <<views, database, stmts, result, rejected, before,
                   secrets, kaggleJson, files, quoteVars>>

\* Lines 179-255 as the task instance views.
build_kpi_views_task ==
    /\ Runnable(5)
    /\ Build(0)
    /\ EndTry(5, IF result' = "raised" THEN "ProgrammingError" ELSE "ok")
    /\ UNCHANGED <<secrets, kaggleJson, files, quoteVars>>

\* Trigger rule all_success: a task whose upstream failed is never started.
MarkUpstreamFailed ==
    \E i \in 2..Len(Tasks) :
        /\ taskState[i] = "none"
        /\ taskState[i - 1] \in {"failed", "upstream_failed"}
        /\ taskState' = [taskState EXCEPT ![i] = "upstream_failed"]
        /\ UNCHANGED <<tries, secrets, kaggleJson, files, storeVars, buildVars, quoteVars>>

RunOver == \A i \in DOMAIN Tasks : taskState[i] \in {"success", "failed", "upstream_failed"}

\* schedule=None: a new DAG run is triggered by hand once the last one is over;
\* the mounted secrets may differ from run to run.
TriggerDagRun ==
    /\ RunOver
    /\ taskState' = [i \in DOMAIN Tasks |-> "none"]
    /\ tries' = [i \in DOMAIN Tasks |-> 0]
    /\ secrets' \in BOOLEAN
    /\ UNCHANGED <<kaggleJson, files, storeVars, buildVars, quoteVars>>

\* A fresh deployment: no analytics database yet, a first DAG run triggered.
InitDag ==
    /\ cols = NoColumns
    /\ views = NoViews
    /\ schemas = {}
    /\ database = FALSE
    /\ IdleBuild
    /\ taskState = [i \in DOMAIN Tasks |-> "none"]
    /\ tries = [i \in DOMAIN Tasks |-> 0]
    /\ secrets \in BOOLEAN
    /\ kaggleJson = FALSE
    /\ files = NoFiles
    /\ IdleQuote

NextDag ==
    \/ ensure_kaggle_creds
    \/ ensure_postgres_db_and_schemas
    \/ download_and_extract
    \/ load_csvs_to_postgres
    \/ build_kpi_views_task
    \/ MarkUpstreamFailed
    \/ TriggerDagRun

SpecDag == InitDag /\ [][NextDag]_vars

----------------------------------------------------------------------------
(* _identifier and the store reading the quoted text back.                  *)

\* Longest name tried.
MaxLen == 4

Quote == "\""

Alphabet == {"a", Quote, " "}

\* An identifier has at least one character.
Names == UNION {[1..n -> Alphabet] : n \in 1..MaxLen}

\* What the code writes right after an identifier: " TEXT", ", ", ")", " (", ";".
Followers == {<<>>, <<" ", "T">>, <<",", " ">>, <<")">>, <<";">>}

KeepQuotes(s) == s

\* str.replace('"', '""').
RECURSIVE DoubleQuotes(_)
DoubleQuotes(s) ==
    IF s = <<>> THEN <<>>
    ELSE (IF Head(s) = Quote THEN <<Quote, Quote>> ELSE <<Head(s)>>) \o DoubleQuotes(Tail(s))

\* Lines 42-44.
_identifier(n) == <<Quote>> \o DoubleQuotes(n) \o <<Quote>>

\* The scanner inside a quoted identifier: a doubled quote is one quote of the
\* name, a single quote ends it.
RECURSIVE ScanQuoted(_, _, _)
ScanQuoted(text, i, acc) ==
    IF i > Len(text) THEN [done |-> TRUE, ok |-> FALSE, name |-> acc, rest |-> <<>>]
    ELSE IF text[i] # Quote THEN ScanQuoted(text, i + 1, Append(acc, text[i]))
    ELSE IF i < Len(text) /\ text[i + 1] = Quote THEN ScanQuoted(text, i + 2, Append(acc, Quote))
    ELSE [done |-> TRUE, ok |-> TRUE, name |-> acc, rest |-> SubSeq(text, i + 1, Len(text))]

ScanIdentifier(text) ==
    IF text # <<>> /\ text[1] = Quote
    THEN ScanQuoted(text, 2, <<>>)
    ELSE [done |-> TRUE, ok |-> FALSE, name |-> <<>>, rest |-> text]

InitQuote ==
    /\ cols = NoColumns
    /\ views = NoViews
    /\ schemas = {"raw", "analytics"}
    /\ database = TRUE
    /\ IdleBuild
    /\ IdleDag
    /\ name \in Names
    /\ following \in Followers
    /\ quoted = <<>>
    /\ parsed = NotScanned

\* The code embeds _identifier(name) in a statement.
QuoteName ==
    /\ quoted = <<>>
    /\ quoted' = _identifier(name) \o following
    /\ UNCHANGED <<name, following, parsed, storeVars, buildVars, dagVars>>

\* The store reads the statement.
ScanStatement ==
    /\ quoted # <<>>
    /\ ~parsed.done
    /\ parsed' = ScanIdentifier(quoted)
    /\ UNCHANGED <<name, following, quoted, storeVars, buildVars, dagVars>>

NextQuote == QuoteName \/ ScanStatement

SpecQuote == InitQuote /\ [][NextQuote]_vars

----------------------------------------------------------------------------
(* Properties of build_kpi_views.                                           *)

JustRan == inRow > 0
Completed == JustRan /\ result # "raised"

\* The statements of the last run, flattened.
Issued == UNION {{stmts[i][j] : j \in DOMAIN stmts[i]} : i \in DOMAIN stmts}
IssuedOps(v) == {st.op : st \in {x \in Issued : x.view = v}}

HasDate(cs) == "created_at" \in cs["order_items"] \/ "created_at" \in cs["orders"]

\* Every column the text of category_daily reads.
CategoryColumnsPresent(cs) ==
    /\ {"created_at", "product_id", "sale_price"} \subseteq cs["order_items"]
    /\ {"id", "category"} \subseteq cs["products"]

\* C1: after every run that completes, the views present are a function of that
\* run's column sets alone: kpi_daily exists iff some created_at exists,
\* category_daily exists iff every column it reads exists, and the view state is
\* the one the same run leaves on a store with no views at all.
C1_NoStaleView ==
    Completed =>
        /\ ("kpi_daily" \in DOMAIN views) <=> HasDate(cols)
        /\ ("category_daily" \in DOMAIN views) <=> CategoryColumnsPresent(cols)
        /\ views = RunFrom(Plan(cols).batches, 1, NoViews, cols, schemas, 0).views

\* A completed run that found category_daily in place and left it absent while
\* building kpi_daily.
C1_Witness ==
    /\ Completed
    /\ "category_daily" \in DOMAIN before
    /\ "category_daily" \notin DOMAIN views
    /\ "kpi_daily" \in DOMAIN views

\* C2: CREATE VIEW analytics.category_daily is issued iff every column its text
\* reads is present; otherwise only DROP VIEW IF EXISTS is issued for it.
C2_CategoryIffColumns ==
    JustRan =>
        IF CategoryColumnsPresent(cols)
        THEN "CREATE VIEW" \in IssuedOps("category_daily")
        ELSE IssuedOps("category_daily") = {"DROP VIEW IF EXISTS"}

\* C4: a run that directly follows a run, the column sets untouched in between,
\* issues the same statements and leaves the same views and the same outcome.
C4_Idempotent ==
    [][(inRow >= 1 /\ inRow' = inRow + 1) =>
          (stmts' = stmts /\ views' = views /\ result' = result)]_vars

\* Two runs in a row over a store where both views are created.
C4_Witness ==
    /\ inRow >= 2
    /\ result # "raised"
    /\ DOMAIN views = ViewNames

\* C5: with created_at in neither order_items nor orders, the run issues exactly
\* the two DROP VIEW IF EXISTS statements, no CREATE VIEW, does not raise, and
\* returns the warning.
C5_NoTimestampBails ==
    (JustRan /\ ~HasDate(cols)) =>
        /\ stmts = << <<DropView("kpi_daily")>>, <<DropView("category_daily")>> >>
        /\ \A st \in Issued : st.op # "CREATE VIEW"
        /\ result = "No created_at column found; skipped KPI views."
        /\ views = NoViews

\* A run without any created_at that found both views in place.
C5_Witness ==
    /\ JustRan
    /\ ~HasDate(cols)
    /\ DOMAIN before = ViewNames
    /\ result = "No created_at column found; skipped KPI views."

RevenueFragments == {"SUM(COALESCE(order_items.sale_price::numeric, 0))", "COUNT(*)::numeric"}

FragmentsOf(def) ==
    UNION {{def.select[i].expr[j] : j \in DOMAIN def.select[i].expr} : i \in DOMAIN def.select}

\* C6: in every CREATE VIEW kpi_daily issued, the revenue column and the aov
\* numerator are the sum of sale_price if order_items has sale_price and the row
\* count otherwise, and no other revenue expression occurs in the view.
C6_RevenueResolution ==
    JustRan =>
        \A st \in Issued :
            (st.op = "CREATE VIEW" /\ st.view = "kpi_daily") =>
                LET want == IF "sale_price" \in cols["order_items"]
                            THEN "SUM(COALESCE(order_items.sale_price::numeric, 0))"
                            ELSE "COUNT(*)::numeric"
                IN  /\ FragmentsOf(st.def) \cap RevenueFragments \subseteq {want}
                    /\ \A i \in DOMAIN st.def.select :
                          /\ st.def.select[i].alias = "revenue" => st.def.select[i].expr = <<want>>
                          /\ st.def.select[i].alias = "aov" => st.def.select[i].expr[4] = want

\* kpi_daily created over order_items without sale_price: revenue is the row count.
C6_Witness ==
    /\ Completed
    /\ "sale_price" \notin cols["order_items"]
    /\ "kpi_daily" \in DOMAIN views
    /\ \E i \in DOMAIN views["kpi_daily"].select :
          /\ views["kpi_daily"].select[i].alias = "revenue"
          /\ views["kpi_daily"].select[i].expr = <<"COUNT(*)::numeric">>

Aliases(def) == [i \in DOMAIN def.select |-> def.select[i].alias]

\* C7: order_items.created_at wins over orders.created_at: with it kpi_daily is
\* created over raw.order_items with order_date, orders, items, revenue, aov;
\* with only orders.created_at it is order_date and COUNT(*) orders over
\* raw.orders; with neither it is dropped.
C7_BaseTablePriority ==
    JustRan =>
        IF "created_at" \in cols["order_items"]
        THEN /\ "kpi_daily" \in DOMAIN views
             /\ DefTables(views["kpi_daily"]) = {"order_items"}
             /\ Aliases(views["kpi_daily"]) = <<"order_date", "orders", "items", "revenue", "aov">>
             /\ views["kpi_daily"].select[1].expr = <<"DATE(order_items.created_at::timestamp)">>
        ELSE IF "created_at" \in cols["orders"]
        THEN /\ "kpi_daily" \in DOMAIN views
             /\ DefTables(views["kpi_daily"]) = {"orders"}
             /\ Aliases(views["kpi_daily"]) = <<"order_date", "orders">>
             /\ views["kpi_daily"].select[1].expr = <<"DATE(orders.created_at::timestamp)">>
             /\ views["kpi_daily"].select[2].expr = <<"COUNT(*)">>
        ELSE /\ "kpi_daily" \notin DOMAIN views
             /\ IssuedOps("kpi_daily") = {"DROP VIEW IF EXISTS"}

\* Both tables carry created_at and the run built kpi_daily over order_items.
C7_Witness ==
    /\ JustRan
    /\ "created_at" \in cols["order_items"]
    /\ "created_at" \in cols["orders"]
    /\ "kpi_daily" \in DOMAIN views
    /\ DefTables(views["kpi_daily"]) = {"order_items"}

\* C3: if the store refuses the statement that creates kpi_daily, the run still
\* issues the statements of category_daily and does not raise.
C3_FailureIsolation ==
    (JustRan /\ rejected = "kpi_daily" /\ HasDate(cols)) =>
        /\ "DROP VIEW IF EXISTS" \in IssuedOps("category_daily")
        /\ CategoryColumnsPresent(cols) => "CREATE VIEW" \in IssuedOps("category_daily")
        /\ result # "raised"

----------------------------------------------------------------------------
(* Properties of the DAG.                                                   *)

Started(i) == tries[i] > 0

\* C8: in a DAG run without the mounted kaggle.json, ensure_kaggle_creds is tried
\* at most once and ends failed, and no later task is ever started; in every run
\* a task is started only after the task before it succeeded.
C8_PrerequisiteAborts ==
    /\ ~secrets =>
          /\ tries[1] <= 1
          /\ taskState[1] \in {"none", "failed"}
          /\ \A i \in 2..Len(Tasks) : ~Started(i) /\ taskState[i] \in {"none", "upstream_failed"}
    /\ \A i \in 2..Len(Tasks) : Started(i) => taskState[i - 1] = "success"

\* A finished run without the token: creds failed after one try, views never ran.
C8_Witness ==
    /\ ~secrets
    /\ RunOver
    /\ tries[1] = 1
    /\ taskState[1] = "failed"
    /\ taskState[5] = "upstream_failed"

\* C10: a DAG run whose download succeeded reloads the raw tables and reaches
\* build_kpi_views, also when an earlier run left views behind.
C10_RerunReachesViews ==
    (RunOver /\ taskState[3] = "success") =>
        /\ taskState[4] = "success"
        /\ Started(5)

----------------------------------------------------------------------------
(* Properties of _identifier.                                               *)

\* C9: the store reads _identifier(name) back as exactly name and stops at its
\* closing quote, whatever follows; no two names share a quoted text.
C9_QuoteRoundTrip ==
    /\ parsed.done =>
          /\ parsed.ok
          /\ parsed.name = name
          /\ parsed.rest = following
    /\ \A m \in Names : _identifier(m) = _identifier(name) => m = name

\* A name holding a double quote and a space, quoted and read back.
C9_Witness ==
    /\ parsed.done
    /\ parsed.ok
    /\ \E i \in DOMAIN name : name[i] = Quote
    /\ \E i \in DOMAIN name : name[i] = " "
    /\ following # <<>>

====
